---- MODULE Spec2Model ----
(***************************************************************************)
(* Model of the form-field matching pipeline of the Formless backend       *)
(* (backend/api/matching.py, backend/storage/json_storage.py).             *)
(*                                                                         *)
(* One matching request is followed from its arrival at match_form_fields  *)
(* to its response or its HTTP error.  The two oracles (the classification *)
(* call of batch_search_intents and the generation call of                 *)
(* generate_content) are external: each call is split into the step that   *)
(* issues it and the step that receives one of its possible outcomes.      *)
(*                                                                         *)
(* Python values are encoded as follows:                                   *)
(*   Optional[x]  : <<>> for None, <<x>> for a value                       *)
(*   dict         : a sequence of <<key, value>> pairs in insertion order  *)
(*   list         : a sequence                                             *)
(***************************************************************************)
EXTENDS Integers, Sequences, FiniteSets, TLC

\* ------------------------------------------------------------------ bounds

MaxFields == 2
MaxItems == 2
\* Store mutations that other requests make while one matching request runs.
MaxWrites == 2

\* ---------------------------------------------------------- input domains

FieldNames == {"f1", "f2"}

None == <<>>

Some(x) == <<x>>

\* Python truthiness of an Optional[str]: None and "" are falsy.
Truthy(opt) == opt # None /\ opt[1] # ""

ItemPool ==
    { [id |-> "a", intent |-> "i1", value |-> "v1", type |-> "text"],
      [id |-> "b", intent |-> "i2", value |-> "v2", type |-> "prompt"],
      [id |-> "c", intent |-> "i1", value |-> "v3", type |-> "prompt"] }

SeqsUpTo(S, n) == UNION { [1..k -> S] : k \in 0..n }

Range(s) == { s[i] : i \in DOMAIN s }

\* The contents the storage file can hold: items with distinct ids.
Stores ==
    { s \in SeqsUpTo(ItemPool, MaxItems) :
        \A i, j \in DOMAIN s : i # j => s[i].id # s[j].id }

FieldLists == SeqsUpTo(FieldNames, MaxFields)

IntentLists == { None, Some(<<>>), Some(<<"i1">>), Some(<<"zz">>) }

\* user_prompts: None, or a dict from some field names to outlines (an
\* outline can be the empty string).
PromptDicts ==
    { None,
      Some(<< <<"f1", "o">> >>),
      Some(<< <<"f2", "o">> >>),
      Some(<< <<"f1", "o">>, <<"f2", "o">> >>),
      Some(<< <<"f1", "">> >>),
      Some(<< <<"f1", "">>, <<"f2", "o">> >>) }

Contexts == { None, Some("c") }

\* ------------------------------------------------------------------ dicts

DictKeys(d) == { d[i][1] : i \in DOMAIN d }

DictHas(d, k) == k \in DictKeys(d)

DictIndex(d, k) == CHOOSE i \in DOMAIN d : d[i][1] = k

\* d[k]
DictAt(d, k) == d[DictIndex(d, k)][2]

\* d.get(k, default)
DictGet(d, k, default) == IF DictHas(d, k) THEN DictAt(d, k) ELSE default

\* d[k] = v : an existing key keeps its position, a new key is appended.
DictPut(d, k, v) ==
    IF DictHas(d, k)
    THEN [d EXCEPT ![DictIndex(d, k)] = <<k, v>>]
    ELSE Append(d, <<k, v>>)

InList(x, l) == \E i \in DOMAIN l : l[i] = x

\* ------------------------------------------------------------------ state

VARIABLES
    client,            \* TRUE when the OpenAI client was constructed
    storage_items,     \* the items of the storage file, in file order
    request,           \* the MatchingRequest
    pc,                \* position of match_form_fields
    memory_items,      \* Optional: the candidate items read for the request
    search_calls,      \* classification oracle calls made, with their outcome
    field_matches,     \* Optional: the dict returned by batch_search_intents
    fields,            \* batch_compose_values: the field of each task
    tasks,             \* batch_compose_values: the compose_value tasks
    generation_calls,  \* generation oracle calls made, with their outcome
    matched_fields,    \* Optional: the dict of the MatchingResponse
    error,             \* the HTTPException raised to the caller, or "none"
    store_writes,      \* number of store mutations written to the file
    single_result,     \* Optional: what search_intent returned or raised
    lock,              \* self.lock of the writers' JSONStorage: its holder
    temp_path,         \* Optional: the contents of the ".tmp" file
    file_torn,         \* TRUE when the storage file holds an unfinished dump
    threads            \* the storage calls that run on worker threads

vars == << client, storage_items, request, pc, memory_items, search_calls,
           field_matches, fields, tasks, generation_calls, matched_fields,
           error, store_writes, single_result, lock, temp_path, file_torn,
           threads >>

thread_vars == << lock, temp_path, file_torn, threads >>

\* ---------------------------------------------------------- memory store

\* JSONStorage._read_data: the "items" of the file; a file that does not
\* parse (JSONDecodeError) reads as {"items": []}.
read_data == IF file_torn THEN <<>> ELSE storage_items

\* JSONStorage.get_all_items: every item of the file, in file order.
get_all_items == read_data

\* JSONStorage.get_items_by_intents: the items whose intent is in the list.
get_items_by_intents(intents) ==
    SelectSeq(get_all_items, LAMBDA item : InList(item.intent, intents))

\* match_form_fields: "if not request.memory_intents" (None or empty list)
\* reads all items, otherwise the items of the listed intents.
candidate_items(req) ==
    IF req.memory_intents = None \/ req.memory_intents[1] = <<>>
    THEN get_all_items
    ELSE get_items_by_intents(req.memory_intents[1])

\* -------------------------------------------------------- intent resolver

\* The keys of {field: ... for field in parsed_fields}, in insertion order.
RECURSIVE DistinctFields(_)
DistinctFields(l) ==
    IF l = <<>> THEN <<>>
    ELSE LET front == DistinctFields(SubSeq(l, 1, Len(l) - 1))
             last  == l[Len(l)]
         IN  IF InList(last, front) THEN front ELSE Append(front, last)

available_intents(items) == [i \in DOMAIN items |-> items[i].intent]

\* Variant of intent_to_item that keeps the first item of an intent.
RECURSIVE intent_to_item_first_wins(_)
intent_to_item_first_wins(items) ==
    IF items = <<>> THEN <<>>
    ELSE LET last  == items[Len(items)]
             front == intent_to_item_first_wins(SubSeq(items, 1, Len(items) - 1))
         IN  IF DictHas(front, last.intent) THEN front
             ELSE Append(front, <<last.intent, Some(last)>>)

\* {item.intent: item for item in memory_items}: a later item replaces an
\* earlier one of the same intent.
RECURSIVE intent_to_item(_)
intent_to_item(items) ==
    IF items = <<>> THEN <<>>
    ELSE LET last == items[Len(items)]
         IN  DictPut(intent_to_item(SubSeq(items, 1, Len(items) - 1)),
                     last.intent, Some(last))

\* Variant of match_of that looks the intent up among all stored items
\* instead of the candidates of the request.
match_of_any_stored(matched_intent, items) ==
    IF Truthy(matched_intent)
       /\ DictHas(intent_to_item(get_all_items), matched_intent[1])
    THEN DictAt(intent_to_item(get_all_items), matched_intent[1])
    ELSE None

\* Variant of match_of that reads the candidates of the request from the
\* storage again instead of using the items it was given.
match_of_reread(matched_intent, items) ==
    IF Truthy(matched_intent)
       /\ DictHas(intent_to_item(candidate_items(request)), matched_intent[1])
    THEN DictAt(intent_to_item(candidate_items(request)), matched_intent[1])
    ELSE None

\* The test of one field: "matched_intent and matched_intent in
\* intent_to_item" selects the item, anything else gives None.
match_of(matched_intent, items) ==
    IF Truthy(matched_intent) /\ DictHas(intent_to_item(items), matched_intent[1])
    THEN DictAt(intent_to_item(items), matched_intent[1])
    ELSE None

\* Variant of convert_matches that gives an item to one field only: a later
\* field with the same match gets None.
RECURSIVE convert_matches_dedupe(_, _, _)
convert_matches_dedupe(parsed_fields, result, items) ==
    IF parsed_fields = <<>> THEN <<>>
    ELSE LET field == parsed_fields[Len(parsed_fields)]
             front == convert_matches_dedupe(
                          SubSeq(parsed_fields, 1, Len(parsed_fields) - 1),
                          result, items)
             m     == match_of(DictGet(result, field, None), items)
         IN  DictPut(front, field,
                     IF \E n \in DOMAIN front :
                            front[n][1] # field /\ front[n][2] = m
                     THEN None ELSE m)

\* The loop "for field in parsed_fields" that builds field_matches from the
\* parsed oracle answer (result.get(field) is None for a missing key).
RECURSIVE convert_matches(_, _, _)
convert_matches(parsed_fields, result, items) ==
    IF parsed_fields = <<>> THEN <<>>
    ELSE LET field == parsed_fields[Len(parsed_fields)]
             front == convert_matches(
                          SubSeq(parsed_fields, 1, Len(parsed_fields) - 1),
                          result, items)
         IN  DictPut(front, field,
                     match_of(DictGet(result, field, None), items))

\* What the classification oracle can answer for one field: null, an intent
\* of the vocabulary, or a string outside it.
AnswerVals == { None, Some("i1"), Some("i2"), Some("zz") }

\* The outcomes of the classification call: the call raises, its content is
\* not a JSON object, or it is a JSON object over the requested fields.
SearchOutcomes(parsed_fields) ==
    { [kind |-> "raise", result |-> <<>>],
      [kind |-> "unparseable", result |-> <<>>] } \cup
    { [kind |-> "json",
       result |-> LET keys == DistinctFields(parsed_fields)
                  IN  [i \in DOMAIN keys |-> <<keys[i], g[keys[i]]>>]] :
        g \in [Range(parsed_fields) -> AnswerVals] }

\* Variant of search_result that answers a failed call with "no match for
\* any field" instead of raising.
search_result_swallow(parsed_fields, items, outcome) ==
    [exc |-> FALSE,
     value |-> IF outcome.kind = "json"
               THEN Some(convert_matches(parsed_fields, outcome.result, items))
               ELSE Some([i \in DOMAIN DistinctFields(parsed_fields) |->
                            <<DistinctFields(parsed_fields)[i], None>>])]

\* The try block of batch_search_intents: the dict of matches, or the
\* HTTPException that replaces any exception raised inside it.
search_result(parsed_fields, items, outcome) ==
    IF outcome.kind = "json"
    THEN [exc |-> FALSE,
          value |-> Some(convert_matches(parsed_fields, outcome.result, items))]
    ELSE [exc |-> TRUE, value |-> None]

\* --------------------------------------------------------- value composer

\* messages_content of generate_content: the sections that are present, in
\* rank order, and the closing instruction.
generate_payload(user_prompt, context, memory_item_value) ==
    [ sections |->
          (IF Truthy(user_prompt) \/ (Truthy(context) /\ Truthy(memory_item_value))
           THEN << <<"PRIORITY", "">> >> ELSE <<>>) \o
          (IF Truthy(user_prompt)
           THEN << <<"PRIMARY", user_prompt[1]>> >> ELSE <<>>) \o
          (IF Truthy(context)
           THEN << <<"SECONDARY", context[1]>> >> ELSE <<>>) \o
          (IF Truthy(memory_item_value)
           THEN << <<"SUPPLEMENTARY", memory_item_value[1]>> >> ELSE <<>>),
      instruction |->
          IF Truthy(user_prompt) THEN "outline"
          ELSE IF Truthy(context) THEN "context"
          ELSE "template" ]

NoPayload == [sections |-> <<>>, instruction |-> ""]

\* Variant of compose_value that sends a literal item through generation
\* when a form context is supplied.
compose_value_context_first(matched_item, user_prompt, context) ==
    IF ~client
    THEN [op |-> "raise", detail |-> "not_configured", value |-> None,
          content |-> NoPayload]
    ELSE IF Truthy(user_prompt)
    THEN [op |-> "generate", detail |-> "none", value |-> None,
          content |-> generate_payload(
              user_prompt, context,
              IF matched_item # None THEN Some(matched_item[1].value) ELSE None)]
    ELSE IF matched_item = None
    THEN [op |-> "return", detail |-> "none", value |-> None, content |-> NoPayload]
    ELSE IF matched_item[1].type = "text" /\ ~Truthy(context)
    THEN [op |-> "return", detail |-> "none", value |-> Some(matched_item[1].value),
          content |-> NoPayload]
    ELSE [op |-> "generate", detail |-> "none", value |-> None,
          content |-> generate_payload(None, context, Some(matched_item[1].value))]

\* Variant of compose_value that looks at the kind of the matched item
\* before the outline: a literal item wins over the outline.
compose_value_item_first(matched_item, user_prompt, context) ==
    IF ~client
    THEN [op |-> "raise", detail |-> "not_configured", value |-> None,
          content |-> NoPayload]
    ELSE IF matched_item # None /\ matched_item[1].type = "text"
    THEN [op |-> "return", detail |-> "none", value |-> Some(matched_item[1].value),
          content |-> NoPayload]
    ELSE IF Truthy(user_prompt)
    THEN [op |-> "generate", detail |-> "none", value |-> None,
          content |-> generate_payload(
              user_prompt, context,
              IF matched_item # None THEN Some(matched_item[1].value) ELSE None)]
    ELSE IF matched_item = None
    THEN [op |-> "return", detail |-> "none", value |-> None, content |-> NoPayload]
    ELSE [op |-> "generate", detail |-> "none", value |-> None,
          content |-> generate_payload(None, context, Some(matched_item[1].value))]

\* Variant of compose_value that generates from the form context when there
\* is neither an outline nor a matched item.
compose_value_context_only(matched_item, user_prompt, context) ==
    IF ~client
    THEN [op |-> "raise", detail |-> "not_configured", value |-> None,
          content |-> NoPayload]
    ELSE IF Truthy(user_prompt)
    THEN [op |-> "generate", detail |-> "none", value |-> None,
          content |-> generate_payload(
              user_prompt, context,
              IF matched_item # None THEN Some(matched_item[1].value) ELSE None)]
    ELSE IF matched_item = None
    THEN IF Truthy(context)
         THEN [op |-> "generate", detail |-> "none", value |-> None,
               content |-> generate_payload(None, context, None)]
         ELSE [op |-> "return", detail |-> "none", value |-> None, content |-> NoPayload]
    ELSE IF matched_item[1].type = "text"
    THEN [op |-> "return", detail |-> "none", value |-> Some(matched_item[1].value),
          content |-> NoPayload]
    ELSE [op |-> "generate", detail |-> "none", value |-> None,
          content |-> generate_payload(None, context, Some(matched_item[1].value))]

\* Variant of compose_value that returns the value of a template item as it
\* is stored, without generation.
compose_value_template_raw(matched_item, user_prompt, context) ==
    IF ~client
    THEN [op |-> "raise", detail |-> "not_configured", value |-> None,
          content |-> NoPayload]
    ELSE IF Truthy(user_prompt)
    THEN [op |-> "generate", detail |-> "none", value |-> None,
          content |-> generate_payload(
              user_prompt, context,
              IF matched_item # None THEN Some(matched_item[1].value) ELSE None)]
    ELSE IF matched_item = None
    THEN [op |-> "return", detail |-> "none", value |-> None, content |-> NoPayload]
    ELSE [op |-> "return", detail |-> "none", value |-> Some(matched_item[1].value),
          content |-> NoPayload]

\* Variant of compose_value that returns the value of an item of any kind
\* other than template as it is stored.
compose_value_unknown_as_text(matched_item, user_prompt, context) ==
    IF ~client
    THEN [op |-> "raise", detail |-> "not_configured", value |-> None,
          content |-> NoPayload]
    ELSE IF Truthy(user_prompt)
    THEN [op |-> "generate", detail |-> "none", value |-> None,
          content |-> generate_payload(
              user_prompt, context,
              IF matched_item # None THEN Some(matched_item[1].value) ELSE None)]
    ELSE IF matched_item = None
    THEN [op |-> "return", detail |-> "none", value |-> None, content |-> NoPayload]
    ELSE IF matched_item[1].type = "prompt"
    THEN [op |-> "generate", detail |-> "none", value |-> None,
          content |-> generate_payload(None, context, Some(matched_item[1].value))]
    ELSE [op |-> "return", detail |-> "none", value |-> Some(matched_item[1].value),
          content |-> NoPayload]

\* Variant of compose_value that tests the outline with "is not None": an
\* empty outline starts a generation.
compose_value_outline_not_none(matched_item, user_prompt, context) ==
    IF ~client
    THEN [op |-> "raise", detail |-> "not_configured", value |-> None,
          content |-> NoPayload]
    ELSE IF user_prompt # None
    THEN [op |-> "generate", detail |-> "none", value |-> None,
          content |-> generate_payload(
              user_prompt, context,
              IF matched_item # None THEN Some(matched_item[1].value) ELSE None)]
    ELSE IF matched_item = None
    THEN [op |-> "return", detail |-> "none", value |-> None, content |-> NoPayload]
    ELSE IF matched_item[1].type = "text"
    THEN [op |-> "return", detail |-> "none", value |-> Some(matched_item[1].value),
          content |-> NoPayload]
    ELSE IF matched_item[1].type = "prompt"
    THEN [op |-> "generate", detail |-> "none", value |-> None,
          content |-> generate_payload(None, context, Some(matched_item[1].value))]
    ELSE [op |-> "raise", detail |-> "unknown_type", value |-> None,
          content |-> NoPayload]

\* compose_value up to its first oracle call: it returns a value, raises, or
\* awaits generate_content with the given arguments.
compose_value(matched_item, user_prompt, context) ==
    IF ~client
    THEN [op |-> "raise", detail |-> "not_configured", value |-> None,
          content |-> NoPayload]
    ELSE IF Truthy(user_prompt)
    THEN [op |-> "generate", detail |-> "none", value |-> None,
          content |-> generate_payload(
              user_prompt, context,
              IF matched_item # None THEN Some(matched_item[1].value) ELSE None)]
    ELSE IF matched_item = None
    THEN [op |-> "return", detail |-> "none", value |-> None, content |-> NoPayload]
    ELSE IF matched_item[1].type = "text"
    THEN [op |-> "return", detail |-> "none", value |-> Some(matched_item[1].value),
          content |-> NoPayload]
    ELSE IF matched_item[1].type = "prompt"
    THEN [op |-> "generate", detail |-> "none", value |-> None,
          content |-> generate_payload(None, context, Some(matched_item[1].value))]
    ELSE [op |-> "raise", detail |-> "unknown_type", value |-> None,
          content |-> NoPayload]

\* The outcomes of the generation call: the call raises (or its content does
\* not parse), or it is the JSON object of the response schema, whose
\* "response" key is required.
GenOutcomes ==
    { [kind |-> "raise", response |-> None],
      [kind |-> "json", response |-> Some("g")] }

\* The try block of generate_content: result.get("response", ""), or the
\* HTTPException that replaces any exception raised inside it.
generate_result(outcome) ==
    IF outcome.kind = "json"
    THEN [exc |-> FALSE,
          value |-> IF outcome.response # None THEN outcome.response ELSE Some("")]
    ELSE [exc |-> TRUE, value |-> None]


\* ----------------------------------------------------- batch orchestrator

\* Variant of has_candidates without the emptiness test.
has_candidates_always(items) == TRUE

\* "if not memory_items" of match_form_fields is false.
has_candidates(items) == items # <<>>

\* {field: None for field in parsed_fields}
RECURSIVE all_none(_)
all_none(parsed_fields) ==
    IF parsed_fields = <<>> THEN <<>>
    ELSE DictPut(all_none(SubSeq(parsed_fields, 1, Len(parsed_fields) - 1)),
                 parsed_fields[Len(parsed_fields)], None)

\* user_prompts.get(field) if user_prompts else None
prompt_of(user_prompts, field) ==
    IF user_prompts # None /\ user_prompts[1] # <<>> /\ DictHas(user_prompts[1], field)
    THEN Some(DictAt(user_prompts[1], field))
    ELSE None

NoResult == [exc |-> FALSE, value |-> None]

\* Variant of create_tasks that gives every task the first outline of
\* user_prompts instead of the one stored under the task's field name.
create_tasks_first_outline(matches, user_prompts, context) ==
    [i \in DOMAIN matches |->
        [matched_item |-> matches[i][2],
         user_prompt  |-> IF user_prompts # None /\ user_prompts[1] # <<>>
                          THEN Some(user_prompts[1][1][2]) ELSE None,
         context      |-> context,
         st           |-> "pending",
         result       |-> NoResult]]

\* The loop of batch_compose_values that creates one compose_value
\* coroutine per item of field_matches.
create_tasks(matches, user_prompts, context) ==
    [i \in DOMAIN matches |->
        [matched_item |-> matches[i][2],
         user_prompt  |-> prompt_of(user_prompts, matches[i][1]),
         context      |-> context,
         st           |-> "pending",
         result       |-> NoResult]]

\* Variant of return_exceptions: gather raises the first exception.
return_exceptions_off == FALSE

\* asyncio.gather(*tasks, return_exceptions=True)
return_exceptions == TRUE

\* Variant of gather_done that resumes at the first finished task.
gather_first_completed(ts) == \E i \in DOMAIN ts : ts[i].st = "done"

\* "await asyncio.gather(...)" resumes when every task has finished.
gather_done(ts) == \A i \in DOMAIN ts : ts[i].st = "done"

\* The event loop starts the tasks of gather in order, and a task runs until
\* it suspends or ends.  generate_content calls the synchronous OpenAI
\* client, so a task never suspends: the loop is blocked until the call
\* returns, and task i starts when every task before it has finished.
task_runnable(ts, i) ==
    ts[i].st = "pending" /\ \A j \in 1..(i - 1) : ts[j].st = "done"

\* Variant of ResultText that renders the result with str(): None gives
\* "None" and an exception gives its message.
ResultText_str(r) ==
    IF r.exc THEN "error"
    ELSE IF r.value # None THEN r.value[1] ELSE "None"

\* "result or ''" of the result loop; an exception gives "".
ResultText(r) ==
    IF r.exc THEN ""
    ELSE IF Truthy(r.value) THEN r.value[1] ELSE ""

\* Variant of composed_values that leaves out the fields whose task raised.
composed_values_skip_failed(fs, ts) ==
    LET kept == SelectSeq([i \in DOMAIN fs |-> i], LAMBDA i : ~ts[i].result.exc)
    IN  [k \in DOMAIN kept |-> <<fs[kept[k]], ResultText(ts[kept[k]].result)>>]

\* Variant of composed_values that blanks every field when any task raised.
composed_values_blank_on_error(fs, ts) ==
    [i \in DOMAIN fs |->
        <<fs[i],
          IF \E j \in DOMAIN ts : ts[j].result.exc
          THEN "" ELSE ResultText(ts[i].result)>>]

\* The loop "for field, result in zip(fields, results)": an exception gives
\* "", any other result gives "result or ''".
RECURSIVE composed_values(_, _)
composed_values(fs, ts) ==
    IF fs = <<>> THEN <<>>
    ELSE LET n == Len(fs)
             r == ts[n].result
         IN  DictPut(composed_values(SubSeq(fs, 1, n - 1), SubSeq(ts, 1, n - 1)),
                     fs[n],
                     ResultText(r))

\* ------------------------------------------------------------ transitions

Requests ==
    [parsed_fields : FieldLists, memory_intents : IntentLists,
     user_prompts : PromptDicts, context : Contexts]

Init ==
    /\ client \in BOOLEAN
    /\ storage_items \in Stores
    /\ request \in Requests
    /\ pc = "start"
    /\ memory_items = None
    /\ search_calls = <<>>
    /\ field_matches = None
    /\ fields = <<>>
    /\ tasks = <<>>
    /\ generation_calls = <<>>
    /\ matched_fields = None
    /\ error = "none"
    /\ store_writes = 0
    /\ single_result = None
    /\ lock = "free"
    /\ temp_path = None
    /\ file_torn = FALSE
    /\ threads = << >>

Fail(detail) ==
    /\ pc' = "failed"
    /\ error' = detail

\* match_form_fields up to Stage 1: validate the request, read the
\* candidate items.
ReadCandidates ==
    /\ pc = "start"
    /\ IF request.parsed_fields = <<>>
       THEN /\ Fail("parsed_fields_empty")
            /\ UNCHANGED memory_items
       ELSE LET items == candidate_items(request)
            IN  /\ memory_items' = Some(items)
                /\ IF has_candidates(items)
                   THEN pc' = "stage1" /\ UNCHANGED error
                   ELSE Fail("intents_not_found")
    /\ UNCHANGED << store_writes, single_result >>
    /\ UNCHANGED thread_vars
    /\ UNCHANGED << client, storage_items, request, search_calls, field_matches,
                    fields, tasks, generation_calls, matched_fields >>

\* Variant of search_request that sends the first field only.
search_request_first_field(parsed_fields, items) ==
    [fields  |-> SubSeq(parsed_fields, 1, 1),
     intents |-> available_intents(items),
     outcome |-> None]

\* Variant of client_missing without the test.
client_missing_never == FALSE

\* "if not client": the module-level OpenAI client is None.
client_missing == ~client

\* The classification request of batch_search_intents: one call that carries
\* every field name and the intents of every candidate.
search_request(parsed_fields, items) ==
    [fields  |-> parsed_fields,
     intents |-> available_intents(items),
     outcome |-> None]

\* batch_search_intents up to the classification call.
BatchSearchCall ==
    /\ pc = "stage1"
    /\ IF client_missing
       THEN /\ Fail("not_configured")
            /\ UNCHANGED << search_calls, field_matches >>
       ELSE IF memory_items[1] = <<>>
       THEN /\ field_matches' = Some(all_none(request.parsed_fields))
            /\ pc' = "stage2"
            /\ UNCHANGED << search_calls, error >>
       ELSE /\ search_calls' = Append(search_calls,
                search_request(request.parsed_fields, memory_items[1]))
            /\ pc' = "classifying"
            /\ UNCHANGED << field_matches, error >>
    /\ UNCHANGED << store_writes, single_result >>
    /\ UNCHANGED thread_vars
    /\ UNCHANGED << client, storage_items, request, memory_items, fields, tasks,
                    generation_calls, matched_fields >>

\* The classification call ends; batch_search_intents returns or raises.
BatchSearchReturn ==
    /\ pc = "classifying"
    /\ \E outcome \in SearchOutcomes(request.parsed_fields) :
         LET r == search_result(request.parsed_fields, memory_items[1], outcome)
         IN  /\ search_calls' =
                    [search_calls EXCEPT ![Len(search_calls)].outcome = Some(outcome)]
             /\ IF r.exc
                THEN Fail("search_failed") /\ UNCHANGED field_matches
                ELSE /\ field_matches' = r.value
                     /\ pc' = "stage2"
                     /\ UNCHANGED error
    /\ UNCHANGED << store_writes, single_result >>
    /\ UNCHANGED thread_vars
    /\ UNCHANGED << client, storage_items, request, memory_items, fields, tasks,
                    generation_calls, matched_fields >>

\* batch_compose_values up to "await asyncio.gather".
CreateTasks ==
    /\ pc = "stage2"
    /\ fields' = [i \in DOMAIN field_matches[1] |-> field_matches[1][i][1]]
    /\ tasks' = create_tasks(field_matches[1], request.user_prompts, request.context)
    /\ pc' = "gather"
    /\ UNCHANGED << store_writes, single_result >>
    /\ UNCHANGED thread_vars
    /\ UNCHANGED << client, storage_items, request, memory_items, search_calls,
                    field_matches, generation_calls, matched_fields, error >>

\* The event loop runs task i: compose_value returns, raises, or reaches the
\* generation call of generate_content.
ComposeStep(i) ==
    /\ pc = "gather"
    /\ i \in DOMAIN tasks
    /\ task_runnable(tasks, i)
    /\ LET t == tasks[i]
           c == compose_value(t.matched_item, t.user_prompt, t.context)
       IN  IF c.op = "generate"
           THEN /\ tasks' = [tasks EXCEPT ![i].st = "calling"]
                /\ generation_calls' = Append(generation_calls,
                       [field |-> fields[i], content |-> c.content,
                        outcome |-> None])
           ELSE /\ tasks' = [tasks EXCEPT
                       ![i].st = "done",
                       ![i].result = [exc |-> c.op = "raise", value |-> c.value]]
                /\ UNCHANGED generation_calls
    /\ UNCHANGED << store_writes, single_result >>
    /\ UNCHANGED thread_vars
    /\ UNCHANGED << client, storage_items, request, pc, memory_items,
                    search_calls, field_matches, fields, matched_fields, error >>

GenCallIndex(field) ==
    CHOOSE k \in DOMAIN generation_calls :
        generation_calls[k].field = field /\ generation_calls[k].outcome = None

\* The generation call of task i ends; generate_content returns or raises.
GenerateReturn(i) ==
    /\ pc = "gather"
    /\ i \in DOMAIN tasks
    /\ tasks[i].st = "calling"
    /\ \E outcome \in GenOutcomes :
         /\ tasks' = [tasks EXCEPT ![i].st = "done",
                                   ![i].result = generate_result(outcome)]
         /\ generation_calls' =
                [generation_calls EXCEPT
                    ![GenCallIndex(fields[i])].outcome = Some(outcome)]
    /\ UNCHANGED << store_writes, single_result >>
    /\ UNCHANGED thread_vars
    /\ UNCHANGED << client, storage_items, request, pc, memory_items,
                    search_calls, field_matches, fields, matched_fields, error >>

\* gather returns; batch_compose_values builds the dict and match_form_fields
\* returns the MatchingResponse.
Respond ==
    /\ pc = "gather"
    /\ gather_done(tasks)
    /\ IF ~return_exceptions /\ \E i \in DOMAIN tasks : tasks[i].result.exc
       THEN Fail("compose_failed") /\ UNCHANGED matched_fields
       ELSE /\ matched_fields' = Some(composed_values(fields, tasks))
            /\ pc' = "responded"
            /\ UNCHANGED error
    /\ UNCHANGED << store_writes, single_result >>
    /\ UNCHANGED thread_vars
    /\ UNCHANGED << client, storage_items, request, memory_items, search_calls,
                    field_matches, fields, tasks, generation_calls >>

Next ==
    \/ ReadCandidates
    \/ BatchSearchCall
    \/ BatchSearchReturn
    \/ CreateTasks
    \/ \E i \in 1..MaxFields : ComposeStep(i)
    \/ \E i \in 1..MaxFields : GenerateReturn(i)
    \/ Respond

Spec == Init /\ [][Next]_vars

\* ----------------------------------------------------------------- claims

\* The value the response holds for a field.
ValueOf(field) == DictAt(matched_fields[1], field)

\* The generation oracle calls made for a field.
CallsOf(field) ==
    { k \in DOMAIN generation_calls : generation_calls[k].field = field }

\* What the generation oracle gave for a call: its text, "" when it failed
\* or left the text out.
AnswerText(call) ==
    IF call.outcome # None /\ call.outcome[1].kind = "json"
       /\ call.outcome[1].response # None
    THEN call.outcome[1].response[1]
    ELSE ""

\* The answer of the classification oracle for a field, None when the call
\* gave no JSON object.
AnsweredIntent(field) ==
    IF search_calls # <<>> /\ search_calls[1].outcome # None
       /\ search_calls[1].outcome[1].kind = "json"
    THEN DictGet(search_calls[1].outcome[1].result, field, None)
    ELSE None

CandidateIntents == Range(available_intents(memory_items[1]))

\* C1 (completeness): the mapping of a response has exactly the requested
\* field names as its keys, each once, whatever happened to each field.
C1_ExactKeys ==
    pc = "responded" =>
        /\ DictKeys(matched_fields[1]) = Range(request.parsed_fields)
        /\ Len(matched_fields[1]) = Cardinality(Range(request.parsed_fields))

\* A response for two fields, one of them failed, with an outline supplied
\* for a name that was not requested.
C1_Witness ==
    /\ pc = "responded"
    /\ request.parsed_fields = <<"f1", "f1">>
    /\ request.user_prompts # None
    /\ DictHas(request.user_prompts[1], "f2")
    /\ tasks[1].result.exc

\* The value a field gets from its own inputs and its own oracle answer.
OwnValue(i) ==
    LET f == fields[i]
        c == compose_value(DictAt(field_matches[1], f),
                           prompt_of(request.user_prompts, f),
                           request.context)
    IN  IF c.op = "return" THEN (IF Truthy(c.value) THEN c.value[1] ELSE "")
        ELSE IF c.op = "raise" THEN ""
        ELSE IF Cardinality(CallsOf(f)) = 1
        THEN AnswerText(generation_calls[CHOOSE k \in CallsOf(f) : TRUE])
        ELSE "<no call>"

\* C2 (isolation): when the composition of a field A fails, every other
\* field B still has, in the response, the value that B's own matched item,
\* outline, context and oracle answer give.
C2_Isolation ==
    pc = "responded" =>
        \A a, b \in DOMAIN tasks :
            (a # b /\ tasks[a].result.exc) =>
                /\ tasks[b].st = "done"
                /\ ValueOf(fields[b]) = OwnValue(b)

\* The first field failed in generation, the second one got the oracle's text.
C2_Witness ==
    /\ pc = "responded"
    /\ Len(tasks) = 2
    /\ tasks[1].result.exc
    /\ ~tasks[2].result.exc
    /\ ValueOf(fields[2]) = "g"

\* C3: once batch_search_intents returned, the request does not fail; a
\* field whose composition raised has the empty string in the response.
C3_NoFailureAfterResolution ==
    /\ field_matches # None => (pc # "failed" /\ error = "none")
    /\ pc = "responded" =>
           /\ Len(matched_fields[1]) = Len(tasks)
           /\ \A i \in DOMAIN tasks :
                  tasks[i].result.exc => ValueOf(fields[i]) = ""

\* A response although the composition of every one of two fields raised.
C3_Witness ==
    /\ pc = "responded"
    /\ Len(tasks) = 2
    /\ \A i \in DOMAIN tasks : tasks[i].result.exc

\* C4 (literal passthrough): a task whose matched item is of type "text"
\* and which has no outline makes no generation call and yields the item's
\* value, whatever the context is.
C4_LiteralPassthrough ==
    \A i \in DOMAIN tasks :
        LET t == tasks[i]
        IN  (t.matched_item # None /\ t.matched_item[1].type = "text"
             /\ ~Truthy(t.user_prompt)) =>
                /\ t.st # "calling"
                /\ CallsOf(fields[i]) = {}
                /\ t.st = "done" =>
                       t.result = [exc |-> FALSE,
                                   value |-> Some(t.matched_item[1].value)]
                /\ pc = "responded" =>
                       ValueOf(fields[i]) = t.matched_item[1].value

\* A literal item without outline was composed under a supplied context.
C4_Witness ==
    /\ pc = "responded"
    /\ request.context = Some("c")
    /\ \E i \in DOMAIN tasks :
           /\ tasks[i].matched_item # None
           /\ tasks[i].matched_item[1].type = "text"
           /\ tasks[i].user_prompt = None
           /\ ValueOf(fields[i]) = "v1"

\* C5 (priority law): a task with an outline makes one generation call,
\* with the outline as the primary section and the item's value only as the
\* supplementary one, and its value is what that call gave.
C5_OutlineAlwaysGenerates ==
    \A i \in DOMAIN tasks :
        LET t == tasks[i]
        IN  (Truthy(t.user_prompt) /\ t.st # "pending") =>
                /\ Cardinality(CallsOf(fields[i])) = 1
                /\ \A k \in CallsOf(fields[i]) :
                       LET sec == generation_calls[k].content.sections
                       IN  /\ Len(sec) >= 2
                           /\ sec[2] = <<"PRIMARY", t.user_prompt[1]>>
                           /\ generation_calls[k].content.instruction = "outline"
                           /\ \A n \in DOMAIN sec :
                                  (t.matched_item # None
                                   /\ sec[n][2] = t.matched_item[1].value)
                                      => sec[n][1] = "SUPPLEMENTARY"
                           /\ t.matched_item # None =>
                                  sec[Len(sec)] =
                                      <<"SUPPLEMENTARY", t.matched_item[1].value>>
                           /\ (t.st = "done" /\ ~t.result.exc) =>
                                  t.result.value = Some(AnswerText(generation_calls[k]))
                           /\ pc = "responded" =>
                                  ValueOf(fields[i]) = AnswerText(generation_calls[k])

\* A field with an outline and a literal item got the oracle's text.
C5_Witness ==
    /\ pc = "responded"
    /\ \E i \in DOMAIN tasks :
           /\ tasks[i].user_prompt = Some("o")
           /\ tasks[i].matched_item # None
           /\ tasks[i].matched_item[1].type = "text"
           /\ ValueOf(fields[i]) = "g"

\* C6 (closed vocabulary): every value of the dict of batch_search_intents
\* is None or one of the candidate items; an answered intent that no
\* candidate has gives None for its field, and the call does not fail.
C6_ClosedVocabulary ==
    /\ field_matches # None =>
           \A n \in DOMAIN field_matches[1] :
               LET f == field_matches[1][n][1]
                   m == field_matches[1][n][2]
                   a == AnsweredIntent(f)
               IN  /\ m = None \/ m[1] \in Range(memory_items[1])
                   /\ (a # None /\ a[1] \notin CandidateIntents) => m = None
                   /\ (a # None /\ a[1] \in CandidateIntents) =>
                          (m # None /\ m[1].intent = a[1])
    /\ \A k \in DOMAIN search_calls :
           (search_calls[k].outcome # None
            /\ search_calls[k].outcome[1].kind = "json") =>
               (field_matches # None /\ error = "none")

\* The oracle named an intent outside the candidates for one field and a
\* candidate's intent for the other.
C6_Witness ==
    /\ field_matches # None
    /\ Len(field_matches[1]) = 2
    /\ AnsweredIntent(field_matches[1][1][1]) # None
    /\ AnsweredIntent(field_matches[1][1][1])[1] \notin CandidateIntents
    /\ field_matches[1][1][2] = None
    /\ field_matches[1][2][2] # None

\* C7: a classification call that raised or gave unparseable output fails
\* the request: no match dict, no response, no task, no generation call.
C7_ResolutionAllOrNothing ==
    \A k \in DOMAIN search_calls :
        (search_calls[k].outcome # None
         /\ search_calls[k].outcome[1].kind # "json") =>
            /\ pc = "failed"
            /\ error = "search_failed"
            /\ field_matches = None
            /\ matched_fields = None
            /\ tasks = <<>>
            /\ generation_calls = <<>>

\* The call gave unparseable output for a request of two fields with outlines.
C7_Witness ==
    /\ pc = "failed"
    /\ search_calls # <<>>
    /\ search_calls[1].outcome = Some([kind |-> "unparseable", result |-> <<>>])
    /\ Cardinality(Range(request.parsed_fields)) = 2
    /\ request.user_prompts = Some(<< <<"f1", "o">>, <<"f2", "o">> >>)

C9_Ordering ==
    /\ (tasks # <<>> \/ generation_calls # <<>>) =>
           /\ field_matches # None
           /\ pc \in {"gather", "responded"}
           /\ \A k \in DOMAIN search_calls : search_calls[k].outcome # None
    /\ pc \in {"start", "stage1", "classifying"} =>
           (tasks = <<>> /\ generation_calls = <<>>)
    /\ matched_fields # None =>
           /\ pc = "responded"
           /\ Len(matched_fields[1]) = Len(tasks)
           /\ \A i \in DOMAIN tasks : tasks[i].st = "done"
           /\ \A k \in DOMAIN generation_calls :
                  generation_calls[k].outcome # None

\* A response after two generation calls.
C9_Witness ==
    /\ pc = "responded"
    /\ Len(generation_calls) = 2
    /\ Len(search_calls) = 1

\* C10 (concurrency): a generation call in flight for one field does not
\* keep the composition of another field from starting.
C10_PendingCallDoesNotBlock ==
    \A i, j \in DOMAIN tasks :
        (i # j /\ tasks[i].st = "calling" /\ tasks[j].st = "pending") =>
            ENABLED ComposeStep(j)

\* C11 (no match): a task with neither a matched item nor an outline makes
\* no generation call and returns None, whatever the context is, and its
\* field has the empty string in the response.
C11_NoMatchAbsent ==
    \A i \in DOMAIN tasks :
        LET t == tasks[i]
        IN  (t.matched_item = None /\ ~Truthy(t.user_prompt)) =>
                /\ t.st # "calling"
                /\ CallsOf(fields[i]) = {}
                /\ t.st = "done" => t.result = [exc |-> FALSE, value |-> None]
                /\ pc = "responded" => ValueOf(fields[i]) = ""

\* An unmatched field without outline was composed under a supplied context,
\* next to a field that got a value.
C11_Witness ==
    /\ pc = "responded"
    /\ request.context = Some("c")
    /\ Len(tasks) = 2
    /\ tasks[1].matched_item = None
    /\ tasks[1].user_prompt = None
    /\ ValueOf(fields[1]) = ""
    /\ ValueOf(fields[2]) # ""

\* C12: every value of the response is a string; a None result and a task
\* that raised both give the empty string.
C12_ValuesAreStrings ==
    pc = "responded" =>
        \A i \in DOMAIN tasks :
            /\ matched_fields[1][i][2] \in STRING
            /\ (tasks[i].result.exc \/ tasks[i].result.value = None) =>
                   matched_fields[1][i][2] = ""

\* A response with one field whose task returned None and one whose task
\* raised.
C12_Witness ==
    /\ pc = "responded"
    /\ Len(tasks) = 2
    /\ ~tasks[1].result.exc
    /\ tasks[1].result.value = None
    /\ tasks[2].result.exc

\* The matched item of a task is a template.
IsTemplate(t) == t.matched_item # None /\ t.matched_item[1].type = "prompt"

\* C13: a finished task made exactly one generation call when it has an
\* outline or a template item, and none otherwise; a template without
\* outline is generated from the item's value and the context when present,
\* and its value is what the one call gave; a failed call is not repeated.
C13_GenerationCallCount ==
    /\ \A i \in DOMAIN tasks :
           LET t == tasks[i]
               calls == CallsOf(fields[i])
           IN  /\ Cardinality(calls) <= 1
               /\ t.st = "done" =>
                      Cardinality(calls) =
                          (IF Truthy(t.user_prompt) \/ IsTemplate(t) THEN 1 ELSE 0)
               /\ (IsTemplate(t) /\ ~Truthy(t.user_prompt) /\ t.st # "pending") =>
                      \A k \in calls :
                          LET c == generation_calls[k].content
                          IN  /\ c.sections[Len(c.sections)] =
                                     <<"SUPPLEMENTARY", t.matched_item[1].value>>
                              /\ (t.context # None) =>
                                     \E n \in DOMAIN c.sections :
                                         c.sections[n] = <<"SECONDARY", t.context[1]>>
                              /\ \A n \in DOMAIN c.sections :
                                     c.sections[n][1] # "PRIMARY"
                              /\ pc = "responded" =>
                                     ValueOf(fields[i]) =
                                         AnswerText(generation_calls[k])
    /\ Len(generation_calls) <= Len(tasks)

\* A template item without outline was generated under a context, and the
\* call of another field failed and was not made again.
C13_Witness ==
    /\ pc = "responded"
    /\ Len(tasks) = 2
    /\ IsTemplate(tasks[1])
    /\ tasks[1].user_prompt = None
    /\ tasks[1].context = Some("c")
    /\ ValueOf(fields[1]) = "g"
    /\ tasks[2].result.exc
    /\ Cardinality(CallsOf(fields[2])) = 1

\* C14: a request that reaches resolution makes exactly one classification
\* call, which carries the whole field list; a failed call is not repeated.
C14_OneClassificationCall ==
    /\ Len(search_calls) <= 1
    /\ \A k \in DOMAIN search_calls :
           /\ search_calls[k].fields = request.parsed_fields
           /\ search_calls[k].intents = available_intents(memory_items[1])
    /\ (pc \in {"classifying", "stage2", "gather", "responded"}
        \/ (pc = "failed" /\ error = "search_failed")) =>
           Len(search_calls) = 1

\* Both a failed call and an answered call for a list of two fields.
C14_Witness ==
    /\ Len(request.parsed_fields) = 2
    /\ Len(search_calls) = 1
    /\ pc = "failed"
    /\ error = "search_failed"

\* C17 (configuration error): without a client, a request with a non-empty
\* field list and a non-empty candidate set fails with the configuration
\* error; no oracle call is made and no mapping exists.
C17_ConfigurationError ==
    /\ (~client /\ request.parsed_fields # <<>>
        /\ candidate_items(request) # <<>> /\ pc \notin {"start", "stage1"}) =>
           /\ pc = "failed"
           /\ error = "not_configured"
           /\ field_matches = None
           /\ matched_fields = None
           /\ tasks = <<>>
    /\ ~client => (search_calls = <<>> /\ generation_calls = <<>>)

\* The request of two fields with outlines failed for the missing client.
C17_Witness ==
    /\ ~client
    /\ pc = "failed"
    /\ error = "not_configured"
    /\ Len(request.parsed_fields) = 2
    /\ request.user_prompts = Some(<< <<"f1", "o">>, <<"f2", "o">> >>)

\* The outline supplied under a field's own name, None if there is none.
OwnOutline(f) ==
    IF request.user_prompts = None THEN None
    ELSE IF \E n \in DOMAIN request.user_prompts[1] :
                request.user_prompts[1][n][1] = f
    THEN Some(request.user_prompts[1][
             CHOOSE n \in DOMAIN request.user_prompts[1] :
                 request.user_prompts[1][n][1] = f][2])
    ELSE None

\* The texts a field's generation call may carry: its own outline, the
\* shared context and the value of its own matched item.
OwnTexts(f) ==
    LET item == DictAt(field_matches[1], f)
    IN  {""} \cup (IF OwnOutline(f) # None THEN {OwnOutline(f)[1]} ELSE {})
             \cup (IF request.context # None THEN {request.context[1]} ELSE {})
             \cup (IF item # None THEN {item[1].value} ELSE {})

\* The value fixed by a field's own item, own outline and own oracle answer.
Determined(f) ==
    LET item == DictAt(field_matches[1], f)
        own  == IF CallsOf(f) = {} THEN ""
                ELSE AnswerText(generation_calls[CHOOSE k \in CallsOf(f) : TRUE])
    IN  IF Truthy(OwnOutline(f)) THEN own
        ELSE IF item = None THEN ""
        ELSE IF item[1].type = "text" THEN item[1].value
        ELSE own

\* C18: a task gets its own matched item, the outline stored under its own
\* field name and the shared context; its generation call carries nothing
\* else, and the field's value is fixed by these and the oracle's answer to
\* that call, whatever outlines exist for other names.
C18_OwnInputsOnly ==
    \A i \in DOMAIN tasks :
        /\ tasks[i].matched_item = DictAt(field_matches[1], fields[i])
        /\ tasks[i].user_prompt = OwnOutline(fields[i])
        /\ tasks[i].context = request.context
        /\ \A k \in CallsOf(fields[i]) :
               \A n \in DOMAIN generation_calls[k].content.sections :
                   generation_calls[k].content.sections[n][2] \in OwnTexts(fields[i])
        /\ pc = "responded" => ValueOf(fields[i]) = Determined(fields[i])

\* Only an outline for a name that was not requested exists, and the
\* requested field got the value of its literal item.
C18_Witness ==
    /\ pc = "responded"
    /\ request.parsed_fields = <<"f1">>
    /\ request.user_prompts = Some(<< <<"f2", "o">> >>)
    /\ tasks[1].matched_item # None
    /\ ValueOf("f1") = "v1"

\* C20: the candidate set is every stored item when memory_intents is
\* absent, and otherwise the stored items whose intent is in the given list,
\* in store order.
C20_CandidateSet ==
    memory_items # None =>
        memory_items[1] =
            IF request.memory_intents = None
            THEN storage_items
            ELSE SelectSeq(storage_items,
                     LAMBDA item : \E n \in DOMAIN request.memory_intents[1] :
                                       request.memory_intents[1][n] = item.intent)

\* ------------------------------------- batch_compose_values called directly

\* A MemoryItem whose type is neither "text" nor "prompt".  The storage
\* never returns one (MemoryItem validates type on construction); it reaches
\* compose_value from a caller that builds the item without validation or
\* assigns its type afterwards.
UnknownItem == [id |-> "u", intent |-> "i3", value |-> "v4", type |-> "other"]

\* The field_matches arguments of batch_compose_values: dicts from distinct
\* field names to an Optional[MemoryItem].
MatchDicts ==
    { d \in SeqsUpTo(FieldNames \X ({None} \cup { Some(m) : m \in ItemPool \cup {UnknownItem} }),
                     MaxFields) :
        \A i, j \in DOMAIN d : i # j => d[i][1] # d[j][1] }

\* The state at the entry of batch_compose_values(field_matches,
\* user_prompts, context).
InitCompose ==
    /\ client \in BOOLEAN
    /\ storage_items = <<>>
    /\ field_matches \in { Some(d) : d \in MatchDicts }
    /\ request \in { r \in Requests :
                       /\ r.memory_intents = None
                       /\ r.parsed_fields =
                              [i \in DOMAIN field_matches[1] |-> field_matches[1][i][1]] }
    /\ pc = "stage2"
    /\ memory_items = None
    /\ search_calls = <<>>
    /\ fields = <<>>
    /\ tasks = <<>>
    /\ generation_calls = <<>>
    /\ matched_fields = None
    /\ error = "none"
    /\ store_writes = 0
    /\ single_result = None
    /\ lock = "free"
    /\ temp_path = None
    /\ file_torn = FALSE
    /\ threads = << >>

NextCompose ==
    \/ CreateTasks
    \/ \E i \in 1..MaxFields : ComposeStep(i)
    \/ \E i \in 1..MaxFields : GenerateReturn(i)
    \/ Respond

SpecCompose == InitCompose /\ [][NextCompose]_vars

UnknownKind(t) ==
    t.matched_item # None /\ t.matched_item[1].type \notin {"text", "prompt"}

\* What the claim says of task i: no value, the unrecognized-kind error, the
\* empty string in the mapping, every other field composed as usual.
UnknownKindFails(i) ==
    /\ tasks[i].st # "calling"
    /\ CallsOf(fields[i]) = {}
    /\ pc # "failed"
    /\ tasks[i].st = "done" =>
           /\ tasks[i].result = [exc |-> TRUE, value |-> None]
           /\ compose_value(tasks[i].matched_item, tasks[i].user_prompt,
                            tasks[i].context).detail = "unknown_type"
    /\ pc = "responded" =>
           /\ ValueOf(fields[i]) = ""
           /\ \A j \in DOMAIN tasks \ {i} :
                  /\ tasks[j].st = "done"
                  /\ ValueOf(fields[j]) = OwnValue(j)

single_search_request(parsed_field, items) ==
    [fields  |-> <<parsed_field>>,
     intents |-> available_intents(items),
     outcome |-> None]

\* The outcomes of the classification call of search_intent: the call
\* raises, its content is not a JSON object, or it is the object of the
\* response schema, whose "intent" key is required.
SingleOutcomes ==
    { [kind |-> "raise", result |-> <<>>],
      [kind |-> "unparseable", result |-> <<>>] } \cup
    { [kind |-> "json", result |-> << <<"intent", a>> >>] : a \in AnswerVals }

\* The try block of search_intent: None for a falsy intent, the item of the
\* intent, an HTTPException for an intent that is not a key of
\* intent_to_item (re-raised as it is), and the HTTPException that replaces
\* any other exception.
search_intent_result(items, outcome) ==
    IF outcome.kind # "json"
    THEN [exc |-> TRUE, detail |-> "search_failed", value |-> None]
    ELSE LET matched_intent == DictGet(outcome.result, "intent", None)
         IN  IF ~Truthy(matched_intent)
             THEN [exc |-> FALSE, detail |-> "none", value |-> None]
             ELSE IF ~DictHas(intent_to_item(items), matched_intent[1])
             THEN [exc |-> TRUE, detail |-> "intent_not_in_items", value |-> None]
             ELSE [exc |-> FALSE, detail |-> "none",
                   value |-> DictAt(intent_to_item(items), matched_intent[1])]

\* The state at the entry of search_intent(parsed_field, memory_items); the
\* same arguments are then given to batch_search_intents([parsed_field],
\* memory_items).
InitSingle ==
    /\ client \in BOOLEAN
    /\ storage_items = <<>>
    /\ request \in { r \in Requests :
                       /\ Len(r.parsed_fields) = 1
                       /\ r.memory_intents = None
                       /\ r.user_prompts = None
                       /\ r.context = None }
    /\ pc = "single"
    /\ memory_items \in { Some(items) : items \in Stores }
    /\ search_calls = <<>>
    /\ field_matches = None
    /\ fields = <<>>
    /\ tasks = <<>>
    /\ generation_calls = <<>>
    /\ matched_fields = None
    /\ error = "none"
    /\ store_writes = 0
    /\ single_result = None
    /\ lock = "free"
    /\ temp_path = None
    /\ file_torn = FALSE
    /\ threads = << >>

\* search_intent up to the classification call.
SingleSearchCall ==
    /\ pc = "single"
    /\ IF client_missing
       THEN /\ single_result' =
                   Some([exc |-> TRUE, detail |-> "not_configured", value |-> None])
            /\ pc' = "stage1"
            /\ UNCHANGED search_calls
       ELSE IF memory_items[1] = <<>>
       THEN /\ single_result' =
                   Some([exc |-> FALSE, detail |-> "none", value |-> None])
            /\ pc' = "stage1"
            /\ UNCHANGED search_calls
       ELSE /\ search_calls' = Append(search_calls,
                single_search_request(request.parsed_fields[1], memory_items[1]))
            /\ pc' = "single_classifying"
            /\ UNCHANGED single_result
    /\ UNCHANGED << client, storage_items, request, memory_items, field_matches,
                    fields, tasks, generation_calls, matched_fields, error,
                    store_writes >>
    /\ UNCHANGED thread_vars

\* The classification call of search_intent ends; it returns or raises.
SingleSearchReturn ==
    /\ pc = "single_classifying"
    /\ \E outcome \in SingleOutcomes :
         /\ search_calls' =
                [search_calls EXCEPT ![Len(search_calls)].outcome = Some(outcome)]
         /\ single_result' = Some(search_intent_result(memory_items[1], outcome))
    /\ pc' = "stage1"
    /\ UNCHANGED << client, storage_items, request, memory_items, field_matches,
                    fields, tasks, generation_calls, matched_fields, error,
                    store_writes >>
    /\ UNCHANGED thread_vars

NextSingle ==
    \/ SingleSearchCall
    \/ SingleSearchReturn
    \/ BatchSearchCall
    \/ BatchSearchReturn

SpecSingle == InitSingle /\ [][NextSingle]_vars

\* Both calls have ended, and the oracle gave both the same answer for the
\* field (or neither call reached the oracle).
SameAnswer ==
    /\ single_result # None
    /\ pc \in {"stage2", "failed"}
    /\ \/ search_calls = <<>>
       \/ /\ Len(search_calls) = 2
          /\ LET so == search_calls[1].outcome[1]
                 bo == search_calls[2].outcome[1]
             IN  /\ so.kind = bo.kind
                 /\ so.kind = "json" =>
                        DictAt(so.result, "intent") =
                            DictGet(bo.result, request.parsed_fields[1], None)

\* C15: for the same candidates and the same oracle answer, search_intent(f,
\* items) ends as batch_search_intents([f], items)[f] does: both raise, or
\* both return the same Optional item.
C15_SingleEqualsBatch ==
    SameAnswer =>
        /\ single_result[1].exc <=> (pc = "failed")
        /\ ~single_result[1].exc =>
               single_result[1].value =
                   DictAt(field_matches[1], request.parsed_fields[1])

\* ------------------------------------------- the store under other requests

\* The ids uuid.uuid4() can give.
NewIds == {"n1", "n2"}

\* The MemoryItemCreate payloads of create_item and update_item.
ItemCreates == { [intent |-> m.intent, value |-> m.value, type |-> m.type] : m \in ItemPool }

StoredIds == { storage_items[i].id : i \in DOMAIN storage_items }

\* JSONStorage.create_item: the items with the new item appended.
create_item(items, new_id, item) ==
    Append(items, [id |-> new_id, intent |-> item.intent, value |-> item.value,
                   type |-> item.type])

\* Variant of update_item that removes the item and appends its new version.
update_item_reinsert(items, item_id, item) ==
    IF \E i \in DOMAIN items : items[i].id = item_id
    THEN Append(SelectSeq(items, LAMBDA m : m.id # item_id),
                [id |-> item_id, intent |-> item.intent, value |-> item.value,
                 type |-> item.type])
    ELSE items

\* JSONStorage.update_item: the item of that id is replaced in its place;
\* without such an item nothing is written.
update_item(items, item_id, item) ==
    [i \in DOMAIN items |->
        IF items[i].id = item_id
        THEN [id |-> item_id, intent |-> item.intent, value |-> item.value,
              type |-> item.type]
        ELSE items[i]]

\* JSONStorage.delete_item: the items without those of that id.
delete_item(items, item_id) ==
    SelectSeq(items, LAMBDA m : m.id # item_id)

\* POST /memories, served on a worker thread while the matching request
\* runs.
CreateItem ==
    /\ store_writes < MaxWrites
    /\ \E new_id \in NewIds \ StoredIds, item \in ItemCreates :
         storage_items' = create_item(storage_items, new_id, item)
    /\ store_writes' = store_writes + 1
    /\ UNCHANGED << client, request, pc, memory_items, search_calls,
                    field_matches, fields, tasks, generation_calls,
                    matched_fields, error, single_result >>
    /\ UNCHANGED thread_vars

\* PUT /memories/{item_id}
UpdateItem ==
    /\ store_writes < MaxWrites
    /\ \E item_id \in StoredIds, item \in ItemCreates :
         /\ update_item(storage_items, item_id, item) # storage_items
         /\ storage_items' = update_item(storage_items, item_id, item)
    /\ store_writes' = store_writes + 1
    /\ UNCHANGED << client, request, pc, memory_items, search_calls,
                    field_matches, fields, tasks, generation_calls,
                    matched_fields, error, single_result >>
    /\ UNCHANGED thread_vars

\* DELETE /memories/{item_id}
DeleteItem ==
    /\ store_writes < MaxWrites
    /\ \E item_id \in StoredIds :
         storage_items' = delete_item(storage_items, item_id)
    /\ store_writes' = store_writes + 1
    /\ UNCHANGED << client, request, pc, memory_items, search_calls,
                    field_matches, fields, tasks, generation_calls,
                    matched_fields, error, single_result >>
    /\ UNCHANGED thread_vars

\* The matching requests that run beside the store mutations.
StoreRequests ==
    { r \in Requests :
        /\ r.parsed_fields \in { <<"f1">>, <<"f1", "f2">> }
        /\ r.memory_intents \in { None, Some(<<"i1">>) }
        /\ r.user_prompts = None
        /\ r.context = None }

\* A matching request starts on a store of at most one item; the other
\* requests change the store from there.
InitStore ==
    /\ Init
    /\ client
    /\ Len(storage_items) <= 1
    /\ request \in StoreRequests

NextStore ==
    \/ Next
    \/ CreateItem
    \/ UpdateItem
    \/ DeleteItem

SpecStore == InitStore /\ [][NextStore]_vars

\* The items of the snapshot read for the request.
SnapshotItems == { Some(memory_items[1][i]) : i \in DOMAIN memory_items[1] }

\* Matches and values come from the snapshot, whatever the store holds now.
SnapshotUsed ==
    /\ \A k \in DOMAIN search_calls :
           search_calls[k].intents = available_intents(memory_items[1])
    /\ field_matches # None =>
           \A n \in DOMAIN field_matches[1] :
               LET f == field_matches[1][n][1]
                   m == field_matches[1][n][2]
               IN  /\ m \in {None} \cup SnapshotItems
                   /\ search_calls # <<>> =>
                          m = IF Truthy(AnsweredIntent(f))
                                 /\ DictHas(intent_to_item(memory_items[1]),
                                            AnsweredIntent(f)[1])
                              THEN DictAt(intent_to_item(memory_items[1]),
                                          AnsweredIntent(f)[1])
                              ELSE None
    /\ \A i \in DOMAIN tasks :
           /\ tasks[i].matched_item \in {None} \cup SnapshotItems
           /\ pc = "responded" => ValueOf(fields[i]) = OwnValue(i)

\* C19: no step of the matching request changes the store; the candidate
\* set is read once and stays as read; the calls, the matches and the
\* values are those of that snapshot, also after a create, update or delete.
C19_SnapshotReadOnce ==
    /\ [][Next => storage_items' = storage_items]_vars
    /\ [][memory_items # None => memory_items' = memory_items]_vars
    /\ []SnapshotUsed

\* The response carries the literal value of an item that was deleted from
\* the store after the snapshot was taken.
C19_Witness ==
    /\ pc = "responded"
    /\ store_writes > 0
    /\ memory_items[1] # candidate_items(request)
    /\ ValueOf("f1") = "v1"
    /\ \A i \in DOMAIN storage_items : storage_items[i].value # "v1"

\* C21 (intent uniqueness): no two items of the store, and so no two
\* candidates of a request, have the same intent.
C21_IntentUnique ==
    /\ \A i, j \in DOMAIN storage_items :
           i # j => storage_items[i].intent # storage_items[j].intent
    /\ memory_items # None =>
           \A i, j \in DOMAIN memory_items[1] :
               i # j => memory_items[1][i].intent # memory_items[1][j].intent

\* ----------------------------------------------------- the store on its own

\* The store as any sequence of create_item, update_item and delete_item
\* calls leaves it; no matching request runs.
InitMem ==
    /\ Init
    /\ client
    /\ request = [parsed_fields |-> <<"f1">>, memory_intents |-> None,
                  user_prompts |-> None, context |-> None]

NextMem ==
    \/ CreateItem
    \/ UpdateItem
    \/ DeleteItem

SpecMem == InitMem /\ [][NextMem]_vars

Ids(items) == [i \in DOMAIN items |-> items[i].id]

\* C28: a store mutation appends one item under an id no stored item has,
\* or rewrites the items of one id in their place and keeps every id where
\* it is, or removes one item; all other items stay as they are, in their
\* order.
C28_IdFixed ==
    [][storage_items' # storage_items =>
          \/ /\ Len(storage_items') = Len(storage_items) + 1
             /\ SubSeq(storage_items', 1, Len(storage_items)) = storage_items
             /\ storage_items'[Len(storage_items')].id \notin StoredIds
          \/ /\ Ids(storage_items') = Ids(storage_items)
             /\ \E item_id \in StoredIds :
                    \A i \in DOMAIN storage_items :
                        storage_items[i].id # item_id =>
                            storage_items'[i] = storage_items[i]
          \/ \E k \in DOMAIN storage_items :
                 storage_items' =
                     SubSeq(storage_items, 1, k - 1) \o
                     SubSeq(storage_items, k + 1, Len(storage_items))
      ]_vars

\* The first of two items was updated: it has its id and its place, with a
\* new value and kind, and the second item is as it was.
C28_Witness ==
    /\ store_writes = 1
    /\ Len(storage_items) = 2
    /\ storage_items[1] = [id |-> "a", intent |-> "i1", value |-> "v3", type |-> "prompt"]
    /\ storage_items[2] = [id |-> "b", intent |-> "i2", value |-> "v2", type |-> "prompt"]

\* C29: a match is a candidate that no later candidate shares its intent
\* with, and a field answered with the intent of some candidate resolves to
\* the last candidate of that intent.
C29_LastItemWins ==
    (field_matches # None /\ memory_items # None) =>
        \A n \in DOMAIN field_matches[1] :
            LET f == field_matches[1][n][1]
                m == field_matches[1][n][2]
                items == memory_items[1]
            IN  /\ m # None =>
                       \E k \in DOMAIN items :
                           /\ items[k] = m[1]
                           /\ \A j \in (k + 1)..Len(items) :
                                  items[j].intent # m[1].intent
                /\ (Truthy(AnsweredIntent(f))
                    /\ AnsweredIntent(f)[1] \in CandidateIntents) =>
                       /\ m # None
                       /\ m[1].intent = AnsweredIntent(f)[1]

\* Two candidates have intent "i1"; the field answered "i1" got the second.
C29_Witness ==
    /\ memory_items # None
    /\ Len(memory_items[1]) = 2
    /\ memory_items[1][1].intent = "i1"
    /\ memory_items[1][2].intent = "i1"
    /\ field_matches # None
    /\ AnsweredIntent("f1") = Some("i1")
    /\ DictAt(field_matches[1], "f1") = Some(memory_items[1][2])

\* The answered intent is the intent of some candidate.
AnsweredKnown(f) ==
    Truthy(AnsweredIntent(f)) /\ AnsweredIntent(f)[1] \in CandidateIntents

\* C27: two fields that the oracle gave the same intent both resolve to the
\* item of that intent; each has its own task and, when it needs generation,
\* its own single generation call; both are keys of the response, each with
\* the value of its own composition.
C27_SharedIntent ==
    field_matches # None =>
        \A a, b \in DOMAIN field_matches[1] :
            LET f == field_matches[1][a][1]
                g == field_matches[1][b][1]
            IN  (a # b /\ AnsweredKnown(f)
                 /\ AnsweredIntent(f) = AnsweredIntent(g)) =>
                    /\ field_matches[1][a][2] # None
                    /\ field_matches[1][a][2] = field_matches[1][b][2]
                    /\ field_matches[1][a][2][1].intent = AnsweredIntent(f)[1]
                    /\ tasks # <<>> =>
                           /\ fields[a] = f /\ fields[b] = g
                           /\ tasks[a].matched_item = field_matches[1][a][2]
                           /\ tasks[b].matched_item = field_matches[1][b][2]
                    /\ pc = "responded" =>
                           /\ DictHas(matched_fields[1], f)
                           /\ DictHas(matched_fields[1], g)
                           /\ ValueOf(f) = OwnValue(a)
                           /\ ValueOf(g) = OwnValue(b)
                           /\ Cardinality(CallsOf(f)) =
                                  IF Truthy(tasks[a].user_prompt) \/ IsTemplate(tasks[a])
                                  THEN 1 ELSE 0
                           /\ Cardinality(CallsOf(g)) =
                                  IF Truthy(tasks[b].user_prompt) \/ IsTemplate(tasks[b])
                                  THEN 1 ELSE 0

\* Both fields were answered "i2", the intent of a template: each had its
\* own generation call and has the generated value.
C27_Witness ==
    /\ pc = "responded"
    /\ Len(fields) = 2
    /\ AnsweredIntent("f1") = Some("i2")
    /\ AnsweredIntent("f2") = Some("i2")
    /\ tasks[1].matched_item = tasks[2].matched_item
    /\ tasks[1].matched_item # None
    /\ Cardinality(CallsOf("f1")) = 1
    /\ Cardinality(CallsOf("f2")) = 1
    /\ ValueOf("f1") = "g"
    /\ ValueOf("f2") = "g"

\* C30: a task whose outline is the empty string is composed from its
\* matched item alone: no item gives "", a literal item gives its value, both
\* without a generation call; a template item is generated by a call that
\* has no outline section.
C30_EmptyOutlineIsAbsent ==
    \A i \in DOMAIN tasks :
        tasks[i].user_prompt = Some("") =>
            LET item == tasks[i].matched_item
                f    == fields[i]
            IN  /\ (item = None \/ item[1].type = "text") =>
                       (CallsOf(f) = {} /\ tasks[i].st # "calling")
                /\ \A k \in CallsOf(f) :
                       /\ generation_calls[k].content.instruction # "outline"
                       /\ \A n \in DOMAIN generation_calls[k].content.sections :
                              generation_calls[k].content.sections[n][1] # "PRIMARY"
                /\ pc = "responded" =>
                       ValueOf(f) =
                           IF item = None THEN ""
                           ELSE IF item[1].type = "text" THEN item[1].value
                           ELSE AnswerText(generation_calls[
                                    CHOOSE k \in CallsOf(f) : TRUE])

\* The outline of f1 is "" and its item is literal: the response has the
\* item's value and no generation call was made for f1.
C30_Witness ==
    /\ pc = "responded"
    /\ tasks[1].user_prompt = Some("")
    /\ tasks[1].matched_item # None
    /\ tasks[1].matched_item[1].type = "text"
    /\ CallsOf("f1") = {}
    /\ ValueOf("f1") = "v1"

\* --------------------------------------------- storage calls on threads

\* The worker threads: two call the writers' JSONStorage (memories.py), one
\* reads through the JSONStorage of matching.py, which has its own lock.
Writers == {"w1", "w2"}

Reader == "r"

\* uuid.uuid4() of create_item: a different id in every call.
uuid4(t) == IF t = "w1" THEN "n1" ELSE "n2"

NoItem == [intent |-> "", value |-> "", type |-> ""]

\* The calls a writer thread makes.
WriterCalls ==
    { [op |-> "create_item", item_id |-> "", item |-> c] :
          c \in { x \in ItemCreates : x.type = "prompt" } } \cup
    { [op |-> "update_item", item_id |-> "a", item |-> c] :
          c \in { x \in ItemCreates : x.type = "prompt" } } \cup
    { [op |-> "delete_item", item_id |-> "a", item |-> NoItem] }

\* The part of create_item, update_item and delete_item between _read_data
\* and _write_data: the new list, and whether it is written (update_item
\* returns None and delete_item returns False without writing).
apply_call(call, items, new_id) ==
    IF call.op = "create_item"
    THEN [items |-> create_item(items, new_id, call.item), write |-> TRUE]
    ELSE IF call.op = "update_item"
    THEN [items |-> update_item(items, call.item_id, call.item),
          write |-> \E i \in DOMAIN items : items[i].id = call.item_id]
    ELSE [items |-> delete_item(items, call.item_id),
          write |-> Len(delete_item(items, call.item_id)) < Len(items)]

InitThreads ==
    /\ client = TRUE
    /\ storage_items \in { st \in Stores : Len(st) <= 1 }
    /\ request = [parsed_fields |-> <<"f1">>, memory_intents |-> None,
                  user_prompts |-> None, context |-> None]
    /\ pc = "start"
    /\ memory_items = None
    /\ search_calls = <<>>
    /\ field_matches = None
    /\ fields = <<>>
    /\ tasks = <<>>
    /\ generation_calls = <<>>
    /\ matched_fields = None
    /\ error = "none"
    /\ store_writes = 0
    /\ single_result = None
    /\ lock = "free"
    /\ temp_path = None
    /\ file_torn = FALSE
    /\ threads \in
         { [t \in Writers \cup {Reader} |->
               [call |-> IF t = Reader
                         THEN [op |-> "get_all_items", item_id |-> "", item |-> NoItem]
                         ELSE w[t],
                pc |-> "start", data |-> <<>>, ack |-> FALSE,
                overlapped |-> FALSE]] :
           w \in [Writers -> WriterCalls] }

request_vars == << client, request, pc, memory_items, search_calls,
                   field_matches, fields, tasks, generation_calls,
                   matched_fields, error, store_writes, single_result >>

\* _read_data under the lock, then the change of the list in memory.
ThreadRead(t) ==
    /\ t \in Writers
    /\ threads[t].pc = "start"
    /\ lock = "free"
    /\ LET r == apply_call(threads[t].call, read_data, uuid4(t))
       IN  threads' = [threads EXCEPT
                          ![t].data = r.items,
                          ![t].pc   = IF r.write THEN "write" ELSE "done"]
    /\ UNCHANGED << storage_items, lock, temp_path, file_torn >>
    /\ UNCHANGED request_vars

\* _write_data takes the lock and opens the temporary file for writing.
ThreadWriteOpen(t) ==
    /\ t \in Writers
    /\ threads[t].pc = "write"
    /\ lock = "free"
    /\ lock' = t
    /\ temp_path' = Some([items |-> threads[t].data, complete |-> FALSE])
    /\ threads' = [threads EXCEPT ![t].pc = "dump"]
    /\ UNCHANGED << storage_items, file_torn >>
    /\ UNCHANGED request_vars

\* json.dump ends and the "with open" block closes the temporary file.
ThreadWriteClose(t) ==
    /\ t \in Writers
    /\ threads[t].pc = "dump"
    /\ lock = t
    /\ temp_path' = Some([items |-> threads[t].data, complete |-> TRUE])
    /\ threads' = [threads EXCEPT ![t].pc = "replace"]
    /\ UNCHANGED << storage_items, lock, file_torn >>
    /\ UNCHANGED request_vars

\* Variant of replace_ready: the rename is inside the "with open" block.
replace_ready_early(w) == w.pc \in {"dump", "replace"}

\* temp_path.replace(self.file_path) runs after the "with open" block.
replace_ready(w) == w.pc = "replace"

\* The rename puts the temporary file in the place of the storage file;
\* _write_data releases the lock and the call returns.
ThreadReplace(t) ==
    /\ t \in Writers
    /\ replace_ready(threads[t])
    /\ lock = t
    /\ storage_items' = temp_path[1].items
    /\ file_torn' = ~temp_path[1].complete
    /\ temp_path' = None
    /\ lock' = "free"
    /\ threads' = [threads EXCEPT ![t].pc = "done", ![t].ack = TRUE]
    /\ UNCHANGED request_vars

\* get_all_items through the JSONStorage of matching.py: its lock is not
\* the writers' lock, so the read does not wait for a write in progress.
ThreadGetAll ==
    /\ threads[Reader].pc = "start"
    /\ threads' = [threads EXCEPT
                      ![Reader].data = get_all_items,
                      ![Reader].pc = "done",
                      ![Reader].ack = TRUE,
                      ![Reader].overlapped = (lock # "free")]
    /\ UNCHANGED << storage_items, lock, temp_path, file_torn >>
    /\ UNCHANGED request_vars

NextThreads ==
    \/ \E t \in Writers : ThreadRead(t)
    \/ \E t \in Writers : ThreadWriteOpen(t)
    \/ \E t \in Writers : ThreadWriteClose(t)
    \/ \E t \in Writers : ThreadReplace(t)
    \/ ThreadGetAll

SpecThreads == InitThreads /\ [][NextThreads]_vars

AllDone == \A t \in Writers : threads[t].pc = "done"

\* The stored item of an id.
StoredItem(item_id) ==
    storage_items[CHOOSE i \in DOMAIN storage_items : storage_items[i].id = item_id]

\* C22: when the concurrent calls have returned, no acknowledged write is
\* lost, as in any sequential order of the calls: a created item is stored,
\* a deleted item is not, and an updated item that is still stored has the
\* contents of an acknowledged update.
C22_NoLostWrite ==
    AllDone =>
        \A t \in Writers :
            threads[t].ack =>
                LET call == threads[t].call
                IN  /\ call.op = "create_item" => uuid4(t) \in StoredIds
                    /\ call.op = "delete_item" => call.item_id \notin StoredIds
                    /\ (call.op = "update_item" /\ call.item_id \in StoredIds) =>
                           \E u \in Writers :
                               /\ threads[u].ack
                               /\ threads[u].call.op = "update_item"
                               /\ threads[u].call.item_id = call.item_id
                               /\ StoredItem(call.item_id) =
                                      [id     |-> call.item_id,
                                       intent |-> threads[u].call.item.intent,
                                       value  |-> threads[u].call.item.value,
                                       type   |-> threads[u].call.item.type]

\* C23: the storage file never holds an unfinished dump; it changes in one
\* step, to the list some writer has dumped completely; and a read that
\* does not wait for the writers' lock returns the complete list the file
\* holds at that moment.
C23_AtomicForReaders ==
    /\ []~file_torn
    /\ [][storage_items' # storage_items =>
              \E t \in Writers :
                  /\ temp_path = Some([items |-> threads[t].data, complete |-> TRUE])
                  /\ storage_items' = threads[t].data]_vars
    /\ [][(threads[Reader].pc = "start" /\ threads'[Reader].pc = "done") =>
              /\ threads'[Reader].data = storage_items
              /\ storage_items' = storage_items]_vars

\* The reader read while a writer held the lock with a half-written
\* temporary file, and got the non-empty list of before the write.
C23_Witness ==
    /\ threads[Reader].pc = "done"
    /\ threads[Reader].overlapped
    /\ threads[Reader].data # <<>>
    /\ threads[Reader].data = storage_items
    /\ temp_path # None
    /\ ~temp_path[1].complete
    /\ temp_path[1].items # threads[Reader].data

\* ------------------------------------------- the payload of generate_content

\* The inputs the priority header names: "User's outline (primary) > Form
\* context (secondary) > Memory template (supplementary)".
header_refers == {"PRIMARY", "SECONDARY", "SUPPLEMENTARY"}

\* The inputs the closing instruction names: "following the user's outline
\* above, incorporating context where relevant", "based on the context
\* above", "based on the template above".
instruction_refers(instruction) ==
    IF instruction = "outline" THEN {"PRIMARY", "SECONDARY"}
    ELSE IF instruction = "context" THEN {"SECONDARY"}
    ELSE IF instruction = "template" THEN {"SUPPLEMENTARY"}
    ELSE {}

\* Matched items whose value can be the empty string (MemoryItem.value is
\* any str).
PayloadItems ==
    { [id |-> "p", intent |-> "i1", value |-> v, type |-> ty] :
          v \in {"", "v1"}, ty \in {"text", "prompt"} }

\* The state at the entry of batch_compose_values for one field, with an
\* outline and a context that can be absent, empty or not empty.
InitPayload ==
    /\ client = TRUE
    /\ storage_items = <<>>
    /\ field_matches \in
         { Some(<< <<"f1", m>> >>) :
               m \in {None} \cup { Some(x) : x \in PayloadItems } }
    /\ request \in
         [parsed_fields : {<<"f1">>}, memory_intents : {None},
          user_prompts : { None, Some(<< <<"f1", "">> >>), Some(<< <<"f1", "o">> >>) },
          context : { None, Some(""), Some("c") }]
    /\ pc = "stage2"
    /\ memory_items = None
    /\ search_calls = <<>>
    /\ fields = <<>>
    /\ tasks = <<>>
    /\ generation_calls = <<>>
    /\ matched_fields = None
    /\ error = "none"
    /\ store_writes = 0
    /\ single_result = None
    /\ lock = "free"
    /\ temp_path = None
    /\ file_torn = FALSE
    /\ threads = << >>

SpecPayload == InitPayload /\ [][NextCompose]_vars

\* The section tags of a payload, in payload order.
Tags(content) == [n \in DOMAIN content.sections |-> content.sections[n][1]]

\* The input sections a payload includes.
Included(content) == Range(Tags(content)) \ {"PRIORITY"}

\* C25: the closing instruction of every payload names only sections that
\* the payload includes.
C25_DirectiveConsistent ==
    \A k \in DOMAIN generation_calls :
        instruction_refers(generation_calls[k].content.instruction)
            \subseteq Included(generation_calls[k].content)

Rank(tag) ==
    IF tag = "PRIORITY" THEN 0
    ELSE IF tag = "PRIMARY" THEN 1
    ELSE IF tag = "SECONDARY" THEN 2
    ELSE 3

\* The memory value compose_value passes for a task.
ValuePassed(t) ==
    IF t.matched_item # None THEN Some(t.matched_item[1].value) ELSE None

\* Each input section is in the payload exactly when its input is present,
\* with the input as its text, and the sections are in rank order.
SectionsAsInputs(t, content) ==
    /\ ("PRIMARY" \in Included(content)) <=> Truthy(t.user_prompt)
    /\ ("SECONDARY" \in Included(content)) <=> Truthy(t.context)
    /\ ("SUPPLEMENTARY" \in Included(content)) <=> Truthy(ValuePassed(t))
    /\ \A n \in DOMAIN content.sections :
           /\ content.sections[n][1] = "PRIMARY" =>
                  content.sections[n][2] = t.user_prompt[1]
           /\ content.sections[n][1] = "SECONDARY" =>
                  content.sections[n][2] = t.context[1]
           /\ content.sections[n][1] = "SUPPLEMENTARY" =>
                  content.sections[n][2] = ValuePassed(t)[1]
    /\ \A m, n \in DOMAIN content.sections :
           m < n => Rank(content.sections[m][1]) < Rank(content.sections[n][1])

\* C26: the payload has the outline, context and template sections exactly
\* for the inputs that are present, in that order, and neither its header
\* nor its instruction names an input that is absent.
C26_SectionsAndReferences ==
    \A i \in DOMAIN tasks :
        \A k \in CallsOf(fields[i]) :
            LET content == generation_calls[k].content
            IN  /\ SectionsAsInputs(tasks[i], content)
                /\ "PRIORITY" \in Range(Tags(content)) =>
                       header_refers \subseteq Included(content)
                /\ instruction_refers(content.instruction)
                       \subseteq Included(content)

\* ------------------------------------------------------ oracle that may hang

InitLive ==
    /\ Init
    /\ client
    /\ request \in StoreRequests

\* The steps the event loop takes on its own.  The two oracle calls are
\* made with client.chat.completions.create(...) without a timeout argument
\* and outside asyncio.wait_for, so nothing in the program makes
\* BatchSearchReturn or GenerateReturn happen.
Fairness ==
    /\ WF_vars(ReadCandidates)
    /\ WF_vars(BatchSearchCall)
    /\ WF_vars(CreateTasks)
    /\ WF_vars(\E i \in 1..MaxFields : ComposeStep(i))
    /\ WF_vars(Respond)

SpecLive == InitLive /\ [][Next]_vars /\ Fairness

\* C24: every request ends, with a response or with an error, also when an
\* oracle call gets no answer.
C24_AlwaysCompletes == <>(pc \in {"responded", "failed"})

====
